---- MODULE Spec2Model ----
(***************************************************************************)
(* Model of the image cleaning code of datapipe:                           *)
(*   datapipe/denoising/tailcut_jd.py       Tailcut.clean_image            *)
(*   datapipe/denoising/wavelets_mrfilter.py WaveletTransform.clean_image  *)
(*                                                                         *)
(* A pixel value is a record [k, v]: k = "num" is the finite number       *)
(* v / Unit (numbers are counted in halves, so that 0.5 is a value),       *)
(* k = "nan" is numpy's not-a-number, k = "ninf" / "pinf" are the two      *)
(* infinities.  A grid is a record [ndim, h, w, px] whose px maps the      *)
(* cells <<row, col>> (0-based, as in numpy) to pixel values; for a grid   *)
(* with ndim # 2 only the number of axes matters to the code modelled.     *)
(*                                                                         *)
(* Specifications:                                                         *)
(*   Spec            one Tailcut caller or one wavelet call                *)
(*   PipelineSpec    one wavelet call over the scale, offset, correction   *)
(*                   and noise options                                     *)
(*   CommandSpec     one wavelet call over the options of the command line *)
(*   SinkSpec        one wavelet call without, with an empty and with a    *)
(*                   filled output_data_dict                               *)
(*   ConcurrentSpec  several wavelet calls sharing tmp_files_directory     *)
(*   TailcutSpec     one Tailcut caller calling clean_image repeatedly     *)
(*   GeometrySpec    one flat ASTRI or GCT image converted to a grid and   *)
(*                   back (datapipe/io/geometry_converter.py)              *)
(***************************************************************************)
EXTENDS Integers, Sequences, FiniteSets, TLC

VARIABLES
    algo,            \* which clean_image is running: "tailcut" | "wavelet",
                     \* or "concurrent" for several wavelet calls at a time
    pc,              \* position of the call
    heap,            \* the arrays allocated so far (a reference is an index)
    img,             \* reference of the caller's image
    orig,            \* the caller's image as it was when the call started
    high_threshold,  \* Tailcut parameter
    low_threshold,   \* Tailcut parameter
    masks,           \* final_mask of each Tailcut call made so far
    dilated,         \* high_mask_dilated of each Tailcut call made so far
    ret,             \* reference returned by each call made so far
    err,             \* the exception the call raised, "" if none
    params,          \* keyword arguments of WaveletTransform.clean_image
    sink,            \* output_data_dict: [present, d]
    fs,              \* the files of tmp_files_directory: path -> content
    input_file_path,
    mr_output_file_path,
    nan_mask,        \* np.isnan of the copied input image
    input_img,       \* local variable input_img (a reference)
    cleaned_img,     \* local variable cleaned_img (a reference)
    runs,            \* each os.system(cmd) made so far: the command line,
                     \* its exit status, what it left at the output path
    calls,           \* the concurrent calls of WaveletTransform.clean_image:
                     \* process, position, the two paths, what was loaded
    clock,           \* time.time() of the machine the concurrent calls run on
    drawn            \* what each noise_distribution.rvs(size=...) returned

tcvars == <<high_threshold, low_threshold, masks, dilated>>
wtvars == <<params, sink, fs, input_file_path, mr_output_file_path, nan_mask,
            input_img, cleaned_img, runs>>
ccvars == <<calls, clock>>
vars == <<algo, pc, heap, img, orig, ret, err, tcvars, wtvars, ccvars, drawn>>

----------------------------------------------------------------------------
(* Bounds of the model *)

MaxSide == 3
MaxCalls == 2
MaxCells == 2
MaxThreads == 2
MaxPid == 2
MaxClock == 1
MaxOptions == 2

----------------------------------------------------------------------------
(* Pixel values *)

\* finite numbers are counted in units of 1 / Unit
Unit == 2

Num(n) == [k |-> "num", v |-> n]

\* the number n.0
Whole(n) == Num(n * Unit)
NaN == [k |-> "nan", v |-> 0]
PosInf == [k |-> "pinf", v |-> 0]
NegInf == [k |-> "ninf", v |-> 0]

IsNaN(x) == x.k = "nan"
IsFinite(x) == x.k = "num"

\* a strict comparison, img > threshold
GeMut(x, t) ==
    \/ x.k = "pinf"
    \/ x.k = "num" /\ x.v > t

\* img >= threshold, elementwise: every comparison with NaN is False
Ge(x, t) ==
    \/ x.k = "pinf"
    \/ x.k = "num" /\ x.v >= t

\* the mask applied upside down: img * ~final_mask
MulBoolNot(x, b) ==
    IF ~b THEN x
    ELSE IF x.k = "num" THEN Num(0) ELSE NaN

\* the kept pixels doubled: img * (2 * final_mask) (for comparison)
MulBoolDouble(x, b) ==
    IF b THEN (IF x.k = "num" THEN Num(2 * x.v) ELSE x)
    ELSE IF x.k = "num" THEN Num(0) ELSE NaN

\* float * bool: the boolean is promoted to 1.0 or 0.0, and NaN * 0.0 and
\* inf * 0.0 are NaN (the sign of a zero is not modelled: -0.0 == 0.0)

MulBool(x, b) ==
    IF b THEN x
    ELSE IF x.k = "num" THEN Num(0) ELSE NaN

----------------------------------------------------------------------------
(* Grids *)

Cells(h, w) == (0 .. h - 1) \X (0 .. w - 1)

Grid(hh, ww, f) == [ndim |-> 2, h |-> hh, w |-> ww, px |-> f]

Shape(g) == <<g.h, g.w>>

\* the cells of g holding something else than exactly zero (np.nonzero)
NonZero(g) == {p \in DOMAIN g.px : g.px[p] # Num(0)}

----------------------------------------------------------------------------
(* Tailcut.clean_image *)

\* the pixels below the threshold (for comparison)
high_mask_ofBelow(g, t) == [p \in DOMAIN g.px |-> ~Ge(g.px[p], t)]

high_mask_of(g, t) == [p \in DOMAIN g.px |-> Ge(g.px[p], t)]

\* d[:-1,:] |= m[1:,:]
ShiftUp(d, m, h) ==
    [p \in DOMAIN d |-> d[p] \/ (p[1] < h - 1 /\ m[<<p[1] + 1, p[2]>>])]

\* d[1:,:] |= m[:-1,:]
ShiftDown(d, m, h) ==
    [p \in DOMAIN d |-> d[p] \/ (p[1] >= 1 /\ m[<<p[1] - 1, p[2]>>])]

\* d[:,:-1] |= d[:,1:]   (the right operand is read before anything is
\* written: numpy evaluates overlapping operands as if they did not overlap)
ShiftLeft(d, w) ==
    [p \in DOMAIN d |-> d[p] \/ (p[2] < w - 1 /\ d[<<p[1], p[2] + 1>>])]

\* a sequential in-place update, column by column from the left, which
\* smears a set cell over the rest of its row
ShiftRightMut(d, w) ==
    [p \in DOMAIN d |-> \E c \in 0 .. p[2] : d[<<p[1], c>>]]

\* d[:,1:] |= d[:,:-1]
ShiftRight(d, w) ==
    [p \in DOMAIN d |-> d[p] \/ (p[2] >= 1 /\ d[<<p[1], p[2] - 1>>])]

high_mask_dilated_of(g, t) ==
    LET high_mask == high_mask_of(g, t)
        d0 == high_mask
        d1 == ShiftUp(d0, high_mask, g.h)
        d2 == ShiftDown(d1, high_mask, g.h)
        d3 == ShiftLeft(d2, g.w)
    IN  ShiftRight(d3, g.w)

final_mask_ofMut(g, high, low) ==
    LET low_mask == [p \in DOMAIN g.px |-> Ge(g.px[p], low)]
        d == high_mask_dilated_of(g, high)
    IN  [p \in DOMAIN g.px |-> d[p] \/ low_mask[p]]

final_mask_of(g, high, low) ==
    LET low_mask == [p \in DOMAIN g.px |-> Ge(g.px[p], low)]
        d == high_mask_dilated_of(g, high)
    IN  [p \in DOMAIN g.px |-> d[p] /\ low_mask[p]]

\* cleaned_img = img * final_mask : a new array
cleaned_img_of(g, final_mask) ==
    Grid(g.h, g.w, [p \in DOMAIN g.px |-> MulBool(g.px[p], final_mask[p])])

----------------------------------------------------------------------------
(* Floating-point arithmetic of the wavelet pipeline.  The inputs are       *)
(* chosen so that every logarithm, square root and power taken is a         *)
(* multiple of 1 / Unit (an inexact one stops the model checker).           *)

RECURSIVE IntPow(_, _)
IntPow(b, e) == IF e = 0 THEN 1 ELSE b * IntPow(b, e - 1)

\* x + c for a finite c
Add(x, c) == IF x.k = "num" THEN Num(x.v + c) ELSE x

\* x - y
Sub(x, y) ==
    CASE x.k = "nan" \/ y.k = "nan" -> NaN
      [] x.k = "num" /\ y.k = "num" -> Num(x.v - y.v)
      [] x.k = "num" /\ y.k = "pinf" -> NegInf
      [] x.k = "num" /\ y.k = "ninf" -> PosInf
      [] x.k = y.k -> NaN
      [] OTHER -> x

\* np.log10: NaN below zero, -inf at zero
Log10(x) ==
    CASE x.k = "nan" \/ x.k = "ninf" -> NaN
      [] x.k = "pinf" -> PosInf
      [] x.k = "num" /\ x.v < 0 -> NaN
      [] x.k = "num" /\ x.v = 0 -> NegInf
      [] OTHER -> Whole(CHOOSE e \in 0 .. 6 : IntPow(10, e) * Unit = x.v)

\* np.sqrt: NaN below zero
Sqrt(x) ==
    CASE x.k = "nan" \/ x.k = "ninf" -> NaN
      [] x.k = "pinf" -> PosInf
      [] x.k = "num" /\ x.v < 0 -> NaN
      [] OTHER -> Num(CHOOSE r \in 0 .. x.v * Unit : r * r = x.v * Unit)

\* np.power(b, x) for b = 10. or 2.
Power(b, x) ==
    CASE x.k = "nan" -> NaN
      [] x.k = "pinf" -> PosInf
      [] x.k = "ninf" -> Num(0)
      [] OTHER -> Whole(IntPow(b, CHOOSE e \in 0 .. 10 : e * Unit = x.v))

\* x < y among the values that are not NaN
Less(x, y) ==
    \/ x.k = "ninf" /\ y.k # "ninf"
    \/ y.k = "pinf" /\ x.k # "pinf"
    \/ x.k = "num" /\ y.k = "num" /\ x.v < y.v

\* np.nanmin: the least value that is not NaN, NaN if there is none
nanmin(g) ==
    LET vals == {g.px[p] : p \in DOMAIN g.px} \ {NaN}
    IN  IF vals = {} THEN NaN
        ELSE CHOOSE m \in vals : \A x \in vals : ~Less(x, m)

----------------------------------------------------------------------------
(* Arrays on the heap *)

\* input_img.copy(): a new array with the same content
CopyAlias(h, r) == [heap |-> h, ref |-> r]

Copy(h, r) == [heap |-> Append(h, h[r]), ref |-> Len(h) + 1]

\* a new array holding g
New(h, g) == [heap |-> Append(h, g), ref |-> Len(h) + 1]

\* a[mask] = values, in place: values maps the cells where mask is set
SetWhere(h, r, mask, values) ==
    [h EXCEPT ![r].px = [p \in DOMAIN h[r].px |->
                            IF mask[p] THEN values[p] ELSE h[r].px[p]]]

IsNaNMask(g) == [p \in DOMAIN g.px |-> IsNaN(g.px[p])]

----------------------------------------------------------------------------
(* output_data_dict *)

EmptyDict == [key \in {} |-> 0]

Put(d, key, val) ==
    [x \in DOMAIN d \cup {key} |-> IF x = key THEN val ELSE d[x]]

\* output_data_dict[key] = val whether there is a dictionary or not (for
\* comparison)
RecordAnyway(s, key, val) == [s EXCEPT !.d = Put(s.d, key, val)]

\* output_data_dict[key] = val, under "if output_data_dict is not None"
Record(s, key, val) ==
    IF s.present THEN [s EXCEPT !.d = Put(s.d, key, val)] ELSE s

----------------------------------------------------------------------------
(* datapipe.image.kill_isolated_pixels *)

Lit(g, p) == g.px[p].k = "pinf" \/ (g.px[p].k = "num" /\ g.px[p].v > 0)

Adjacent(p, q) ==
    \/ p[1] = q[1] /\ (p[2] = q[2] + 1 \/ q[2] = p[2] + 1)
    \/ p[2] = q[2] /\ (p[1] = q[1] + 1 \/ q[1] = p[1] + 1)

RECURSIVE Island(_, _, _)
Island(g, S, n) ==
    IF n = 0 THEN S
    ELSE Island(g, S \cup {q \in DOMAIN g.px :
                              Lit(g, q) /\ \E p \in S : Adjacent(p, q)}, n - 1)

Islands(g) ==
    {Island(g, {p}, g.h * g.w) : p \in {q \in DOMAIN g.px : Lit(g, q)}}

number_of_islands(g) == Cardinality(Islands(g))

Isolated(g) == {p \in DOMAIN g.px : {p} \in Islands(g)}

\* the image with its isolated pixels put to zero
kill_isolated_pixels(g) ==
    [g EXCEPT !.px = [p \in DOMAIN g.px |->
                         IF p \in Isolated(g) THEN Num(0) ELSE g.px[p]]]

\* (delta_pe, delta_abs_pe, delta_num_pixels); the two sums are kept as the
\* set of removed pixels with their values
kill_isolated_pixels_stats(g) ==
    LET gone == {<<p, g.px[p]>> : p \in Isolated(g)}
    IN  <<gone, gone, Cardinality(gone)>>

----------------------------------------------------------------------------
(* WaveletTransform.clean_image *)

None == <<>>
Some(x) == <<x>>

\* lines 80-109: the defaults of clean_image
DefaultParams ==
    [type_of_multiresolution_transform |-> None,
     type_of_filters |-> None,
     type_of_non_orthog_filters |-> None,
     number_of_scales |-> None,
     suppress_last_scale |-> FALSE,
     suppress_isolated_pixels |-> FALSE,
     kill_isolated_pixels |-> FALSE,
     coef_detection_method |-> None,
     k_sigma_noise_threshold |-> None,
     noise_model |-> None,
     detect_only_positive_structure |-> FALSE,
     suppress_positivity_constraint |-> FALSE,
     type_of_filtering |-> None,
     first_detection_scale |-> None,
     number_of_iterations |-> None,
     epsilon |-> None,
     support_file_name |-> None,
     precision |-> None,
     mask_file_path |-> None,
     offset_after_calibration |-> None,
     correction_offset |-> FALSE,
     input_image_scale |-> "linear",
     noise_distribution |-> FALSE,
     verbose |-> FALSE,
     raw_option_string |-> None,
     mrfilter_directory |-> None]

\* os.getpid() and time.time() of the call
Pid == 1
Now == 0

\* the same file name for the input and the output (for comparison)
TmpPathAtNoSuffix(pid, now, suffix) == <<pid, now, "">>

\* ".tmp_{}_{}_in.fits".format(os.getpid(), time.time())
TmpPathAt(pid, now, suffix) == <<pid, now, suffix>>

TmpPath(suffix) == TmpPathAt(Pid, Now, suffix)

\* one sample more than there are cells set (for comparison)
count_nonzeroMore(mask) == Cardinality({p \in DOMAIN mask : mask[p]}) + 1

\* line 144: np.count_nonzero(nan_mask)
count_nonzero(mask) == Cardinality({p \in DOMAIN mask : mask[p]})

\* noise_distribution.rvs(size=n): the arrays of n samples
NoiseValues == {Whole(1), Whole(100)}
rvs(size) == [1 .. size -> NoiseValues]

\* a[mask] = samples gives the cells set in mask the samples in row-major
\* order
Rank(mask, p) ==
    Cardinality({q \in DOMAIN mask :
                    /\ mask[q]
                    /\ q[1] < p[1] \/ (q[1] = p[1] /\ q[2] <= p[2])})

Placed(mask, samples) ==
    [p \in {q \in DOMAIN mask : mask[q]} |-> samples[Rank(mask, p)]]

\* one sample for each cell of the mask
Noise(mask) == {Placed(mask, samples) : samples \in rvs(count_nonzero(mask))}

\* lines 143-145: input_img[nan_mask] = noise_distribution.rvs(size=...),
\* in place; the heaps that may result
Injected(h, r, par) ==
    IF par.noise_distribution
    THEN {SetWhere(h, r, IsNaNMask(h[r]), samples) :
             samples \in Noise(IsNaNMask(h[r]))}
    ELSE {h}

\* lines 154-172: the offset, then the scale
Offset(g, par) ==
    IF par.offset_after_calibration # None
    THEN [g EXCEPT !.px = [p \in DOMAIN g.px |-> Add(g.px[p], par.offset_after_calibration[1])]]
    ELSE g

Scale(g, par) ==
    CASE par.input_image_scale = "log" -> [g EXCEPT !.px = [p \in DOMAIN g.px |-> Log10(g.px[p])]]
      [] par.input_image_scale = "sqrt" -> [g EXCEPT !.px = [p \in DOMAIN g.px |-> Sqrt(g.px[p])]]
      [] OTHER -> g

\* "if ....ndim != 2: raise WrongDimensionError()", lines 121 and 259
NotTwoDMut(g) == g.ndim < 2

NotTwoD(g) == g.ndim # 2

\* lines 119-173
WtBegin ==
    /\ algo = "wavelet"
    /\ pc = "begin"
    /\ LET c == Copy(heap, img)
       IN  IF NotTwoD(c.heap[c.ref])
           THEN /\ heap' = c.heap
                /\ input_img' = c.ref
                /\ err' = "WrongDimensionError"
                /\ pc' = "raised"
                /\ UNCHANGED <<sink, input_file_path, mr_output_file_path, nan_mask,
                               drawn>>
           ELSE /\ input_file_path' = TmpPath("in")
                /\ mr_output_file_path' = TmpPath("out")
                /\ sink' = LET s1 == Record(sink, "mr_input_tmp_file_path", TmpPath("in"))
                               s2 == Record(s1, "mr_output_tmp_file_path", TmpPath("out"))
                           IN  IF params.mask_file_path # None
                               THEN Record(s2, "mr_mask_file_path", params.mask_file_path[1])
                               ELSE s2
                /\ nan_mask' = IsNaNMask(c.heap[c.ref])
                /\ \E h1 \in Injected(c.heap, c.ref, params) :
                      LET a == IF params.offset_after_calibration # None
                               THEN New(h1, Offset(h1[c.ref], params))
                               ELSE [heap |-> h1, ref |-> c.ref]
                          b == IF params.input_image_scale \in {"log", "sqrt"}
                               THEN New(a.heap, Scale(a.heap[a.ref], params))
                               ELSE a
                      IN  /\ heap' = b.heap
                          /\ input_img' = b.ref
                          /\ IF params.noise_distribution
                             THEN \E samples \in rvs(count_nonzero(IsNaNMask(c.heap[c.ref]))) :
                                     /\ h1[c.ref].px =
                                            [p \in DOMAIN h1[c.ref].px |->
                                                IF IsNaN(c.heap[c.ref].px[p])
                                                THEN samples[Rank(IsNaNMask(c.heap[c.ref]), p)]
                                                ELSE c.heap[c.ref].px[p]]
                                     /\ drawn' = Append(drawn, samples)
                             ELSE drawn' = drawn
                /\ pc' = "save"
                /\ err' = ""
    /\ UNCHANGED ccvars
    /\ UNCHANGED <<algo, img, orig, ret, tcvars, params, fs, cleaned_img, runs>>

\* lines 176-184: images.save(input_img, input_file_path)
WtSave ==
    /\ algo = "wavelet"
    /\ pc = "save"
    /\ \/ /\ fs' = (input_file_path :> heap[input_img]) @@ fs
          /\ sink' = Record(sink, "save_tmp_file_time_sec", "secs")
          /\ pc' = "exec"
          /\ err' = ""
       \/ /\ fs' \in {fs, (input_file_path :> heap[input_img]) @@ fs}
          /\ sink' = sink
          /\ pc' = "raised"
          /\ err' = "IOError"
    /\ UNCHANGED <<ccvars, drawn>>
    /\ UNCHANGED <<algo, heap, img, orig, ret, tcvars, params, input_file_path,
                   mr_output_file_path, nan_mask, input_img, cleaned_img, runs>>

\* A command line is the sequence of its parts.  A part is a record: w is
\* the text before the formatted value and a is the value (<<>> when the
\* part has none).
Word(w) == [w |-> w, a |-> None]

\* the flag whether the option is None or not (for comparison)
ValuedAlways(w, value) == <<[w |-> w, a |-> value]>>

\* "-x{}".format(value) when the option is not None
Valued(w, value) == IF value # None THEN <<[w |-> w, a |-> value]>> ELSE <<>>

\* the switch when the option is true
Switch(w, on) == IF on THEN <<Word(w)>> ELSE <<>>

\* ' "{}"'.format(path)
Quoted(path) == [w |-> "\"{}\"", a |-> Some(path)]

\* lines 189-192: mr_filter, or the path of mr_filter in mrfilter_directory
Program(par) == [w |-> "mr_filter", a |-> par.mrfilter_directory]

\* lines 195-214: one flag for each option that is set, in this order
Flags(par) ==
       Valued("-t", par.type_of_multiresolution_transform)
    \o Valued("-T", par.type_of_filters)
    \o Valued("-U", par.type_of_non_orthog_filters)
    \o Valued("-n", par.number_of_scales)
    \o Switch("-K", par.suppress_last_scale)
    \o Switch("-k", par.suppress_isolated_pixels)
    \o Valued("-C", par.coef_detection_method)
    \o Valued("-s", par.k_sigma_noise_threshold)
    \o Valued("-m", par.noise_model)
    \o Switch("-p", par.detect_only_positive_structure)
    \o Switch("-P", par.suppress_positivity_constraint)
    \o Valued("-f", par.type_of_filtering)
    \o Valued("-F", par.first_detection_scale)
    \o Valued("-i", par.number_of_iterations)
    \o Valued("-e", par.epsilon)
    \o Valued("-w", par.support_file_name)
    \o Valued("-E", par.precision)
    \o Valued("-I ", par.mask_file_path)
    \o Switch("-v", par.verbose)

\* the raw option string followed by the verbose flag (for comparison)
RawOptionsVerbose(par) ==
    <<[w |-> "raw", a |-> par.raw_option_string]>> \o Switch("-v", par.verbose)

\* line 216: cmd += ' ' + raw_option_string
RawOptions(par) == <<[w |-> "raw", a |-> par.raw_option_string]>>

\* lines 194-216
Options(par) ==
    IF par.raw_option_string = None THEN Flags(par) ELSE RawOptions(par)

\* lines 219-228: the two quoted paths, and no output on the terminal
\* unless verbose
CommandLine(par, input_path, output_path) ==
       <<Program(par)>>
    \o Options(par)
    \o <<Quoted(input_path), Quoted(output_path)>>
    \o (IF par.verbose THEN <<>> ELSE <<Word("> /dev/null")>>)

\* what mr_filter may leave at the output path: nothing, its input, any grid
\* of the same shape, a grid of another shape, an array that is not 2-D
ExtValues == {NaN, Whole(1)}

ExtGrids(g) ==
    {g}
    \cup {[g EXCEPT !.px = f] : f \in [DOMAIN g.px -> ExtValues]}
    \cup {Grid(g.w + 1, g.h, [p \in Cells(g.w + 1, g.h) |-> Num(0)])}
    \cup {[g EXCEPT !.ndim = 3]}

\* what mr_filter may leave at the output path when it fails: its input, a
\* grid of another shape, an array that is not 2-D
ExtGridsFailed(g) ==
    {g}
    \cup {Grid(g.w + 1, g.h, [p \in Cells(g.w + 1, g.h) |-> Num(0)])}
    \cup {[g EXCEPT !.ndim = 3]}

\* lines 189-238: os.system(cmd); the exit status is not looked at
WtExec ==
    /\ algo = "wavelet"
    /\ pc = "exec"
    /\ \E status \in {0, 1} :
          /\ \/ fs' = fs
             \/ /\ status = 0
                /\ \E g \in ExtGrids(fs[input_file_path]) :
                      fs' = (mr_output_file_path :> g) @@ fs
             \/ /\ status = 1
                /\ \E g \in ExtGridsFailed(fs[input_file_path]) :
                      fs' = (mr_output_file_path :> g) @@ fs
          /\ runs' = Append(runs,
                [cmd |-> CommandLine(params, input_file_path, mr_output_file_path),
                 status |-> status,
                 given |-> fs[input_file_path],
                 out |-> IF mr_output_file_path \in DOMAIN fs'
                         THEN Some(fs'[mr_output_file_path])
                         ELSE None])
    /\ sink' = Record(sink, "mrfilter_cmd_exec_time_sec", "secs")
    /\ pc' = "load"
    /\ UNCHANGED <<ccvars, drawn>>
    /\ UNCHANGED <<algo, heap, img, orig, ret, err, tcvars, params, input_file_path,
                   mr_output_file_path, nan_mask, input_img, cleaned_img>>

\* lines 242-250: cleaned_img = images.load(mr_output_file_path, 0)
WtLoad ==
    /\ algo = "wavelet"
    /\ pc = "load"
    /\ IF mr_output_file_path \in DOMAIN fs
       THEN LET a == New(heap, fs[mr_output_file_path])
            IN  /\ heap' = a.heap
                /\ cleaned_img' = a.ref
                /\ sink' = Record(sink, "load_tmp_file_time_sec", "secs")
                /\ pc' = "remove"
                /\ err' = ""
       ELSE /\ pc' = "raised"
            /\ err' = "IOError"
            /\ UNCHANGED <<heap, cleaned_img, sink>>
    /\ UNCHANGED <<ccvars, drawn>>
    /\ UNCHANGED <<algo, img, orig, ret, tcvars, params, fs, input_file_path,
                   mr_output_file_path, nan_mask, input_img, runs>>

\* the file left where it is (for comparison)
RemoveNothing(files, path) == files

\* os.remove(path)
Remove(files, path) == [f \in DOMAIN files \ {path} |-> files[f]]

\* lines 254-255: os.remove of the two files
WtRemove ==
    /\ algo = "wavelet"
    /\ pc = "remove"
    /\ fs' = Remove(Remove(fs, input_file_path), mr_output_file_path)
    /\ pc' = "check"
    /\ UNCHANGED <<ccvars, drawn>>
    /\ UNCHANGED <<algo, heap, img, orig, ret, err, tcvars, params, sink,
                   input_file_path, mr_output_file_path, nan_mask, input_img,
                   cleaned_img, runs>>

\* cleaned_img[nan_mask] = np.nan raises IndexError when the boolean mask
\* has not the shape of the array
RestoreFitsAny(g, mask) == TRUE

RestoreFits(g, mask) == DOMAIN g.px = DOMAIN mask

\* the loaded array as it is (for comparison)
RestoreNaNNone(g, mask) == g

\* line 264: cleaned_img[nan_mask] = np.nan
RestoreNaN(g, mask) ==
    [g EXCEPT !.px = [p \in DOMAIN g.px |->
                        IF p \in DOMAIN mask /\ mask[p] THEN NaN ELSE g.px[p]]]

\* the square root taken back by squaring (for comparison)
InvertScaleSquare(g, par) ==
    CASE par.input_image_scale = "log" -> [g EXCEPT !.px = [p \in DOMAIN g.px |-> Power(10, g.px[p])]]
      [] par.input_image_scale = "sqrt" ->
            [g EXCEPT !.px = [p \in DOMAIN g.px |->
                                IF g.px[p].k = "num"
                                THEN Num((g.px[p].v * g.px[p].v) \div Unit)
                                ELSE IF g.px[p].k = "ninf" THEN PosInf ELSE g.px[p]]]
      [] OTHER -> g

\* lines 268-288 on the array with the NaN put back
InvertScale(g, par) ==
    CASE par.input_image_scale = "log" -> [g EXCEPT !.px = [p \in DOMAIN g.px |-> Power(10, g.px[p])]]
      [] par.input_image_scale = "sqrt" -> [g EXCEPT !.px = [p \in DOMAIN g.px |-> Power(2, g.px[p])]]
      [] OTHER -> g

\* the offset taken back whatever suppress_last_scale is (for comparison)
InvertOffsetAlways(g, par) ==
    IF par.offset_after_calibration # None
    THEN [g EXCEPT !.px = [p \in DOMAIN g.px |-> Add(g.px[p], 0 - par.offset_after_calibration[1])]]
    ELSE g

InvertOffset(g, par) ==
    IF par.offset_after_calibration # None /\ ~par.suppress_last_scale
    THEN [g EXCEPT !.px = [p \in DOMAIN g.px |-> Add(g.px[p], 0 - par.offset_after_calibration[1])]]
    ELSE g

\* the minimum taken away and nothing else (for comparison)
CorrectionOffsetNoFloor(g, par) ==
    IF par.correction_offset
    THEN LET m == nanmin(g)
         IN  [g EXCEPT !.px = [p \in DOMAIN g.px |-> Sub(g.px[p], m)]]
    ELSE g

CorrectionOffset(g, par) ==
    IF par.correction_offset
    THEN LET m == nanmin(g)
             shifted == [p \in DOMAIN g.px |-> Sub(g.px[p], m)]
         IN  [g EXCEPT !.px = [p \in DOMAIN g.px |->
                                 IF IsFinite(shifted[p]) /\ shifted[p].v < Unit
                                 THEN Num(0) ELSE shifted[p]]]
    ELSE g

\* the timing entry whether the removal is requested or not (for comparison)
RemovalTimedAlways(s, par) ==
    Record(s, "scipy_kill_isolated_pixels_time_sec", "secs")

\* lines 301-308: the isolated pixels removed, and the time it took
\* recorded, when kill_isolated_pixels is set
Removal(g, par) ==
    IF par.kill_isolated_pixels THEN kill_isolated_pixels(g) ELSE g

RemovalTimed(s, par) ==
    IF par.kill_isolated_pixels
    THEN Record(s, "scipy_kill_isolated_pixels_time_sec", "secs")
    ELSE s

\* lines 259-314
WtFinish ==
    /\ algo = "wavelet"
    /\ pc = "check"
    /\ IF NotTwoD(heap[cleaned_img])
       THEN /\ err' = "WrongDimensionError"
            /\ pc' = "raised"
            /\ UNCHANGED <<heap, sink, ret>>
       ELSE IF ~RestoreFits(heap[cleaned_img], nan_mask)
       THEN /\ err' = "IndexError"
            /\ pc' = "raised"
            /\ UNCHANGED <<heap, sink, ret>>
       ELSE LET loaded == heap[cleaned_img]
                restored == RestoreNaN(loaded, nan_mask)
                h1 == [heap EXCEPT ![cleaned_img] = restored]
                g1 == InvertScale(restored, params)
                g2 == InvertOffset(g1, params)
                g3 == CorrectionOffset(g2, params)
                stats == kill_isolated_pixels_stats(g3)
                s1 == Record(sink, "img_cleaned_islands_delta_pe", stats[1])
                s2 == Record(s1, "img_cleaned_islands_delta_abs_pe", stats[2])
                s3 == Record(s2, "img_cleaned_islands_delta_num_pixels", stats[3])
                s4 == Record(s3, "img_cleaned_num_islands", number_of_islands(g3))
                g4 == Removal(g3, params)
                rebound == \/ params.input_image_scale \in {"log", "sqrt"}
                           \/ params.offset_after_calibration # None
                                 /\ ~params.suppress_last_scale
                           \/ params.correction_offset
                           \/ params.kill_isolated_pixels
                a == IF rebound THEN New(h1, g4)
                     ELSE [heap |-> h1, ref |-> cleaned_img]
            IN  /\ heap' = a.heap
                /\ ret' = Append(ret, a.ref)
                /\ sink' = RemovalTimed(s4, params)
                /\ pc' = "returned"
                /\ err' = ""
    /\ UNCHANGED <<ccvars, drawn>>
    /\ UNCHANGED <<algo, img, orig, tcvars, params, fs, input_file_path,
                   mr_output_file_path, nan_mask, input_img, cleaned_img, runs>>

----------------------------------------------------------------------------
(* The inputs of the model *)

Background == Num(0)
MarkedValues == {NaN, Num(-2), Num(1), Num(2)}
Thresholds == {-1, 1, 2}

\* the images of h x w pixels that differ from the background in at most
\* two cells, a and b
SparsePx(h, w) ==
    {[p \in Cells(h, w) |-> IF p = ab[1] THEN xy[1]
                            ELSE IF p = ab[2] THEN xy[2] ELSE Background] :
        ab \in Cells(h, w) \X Cells(h, w),
        xy \in (MarkedValues \cup {Background}) \X (MarkedValues \cup {Background})}

SparseImages ==
    UNION {{Grid(h, w, f) : f \in SparsePx(h, w)} :
              <<h, w>> \in (1 .. MaxSide) \X (1 .. MaxSide)}

\* the 5 x 5 all-zero grid with one pixel of 100 at (2,2)
SinglePeak ==
    Grid(5, 5, [p \in Cells(5, 5) |-> IF p = <<2, 2>> THEN Whole(100) ELSE Whole(0)])

NoDict == [present |-> FALSE, d |-> EmptyDict]

TailcutInit ==
    /\ algo = "tailcut"
    /\ pc = "call"
    /\ \E g \in SparseImages \cup {SinglePeak} :
          /\ heap = <<g>>
          /\ orig = g
          /\ IF g = SinglePeak
             THEN high_threshold = 50 * Unit /\ low_threshold = 50 * Unit
             ELSE high_threshold \in Thresholds /\ low_threshold \in Thresholds
    /\ img = 1
    /\ masks = <<>>
    /\ dilated = <<>>
    /\ ret = <<>>
    /\ err = ""
    /\ params = DefaultParams
    /\ sink = NoDict
    /\ fs = EmptyDict
    /\ input_file_path = None
    /\ mr_output_file_path = None
    /\ nan_mask = EmptyDict
    /\ input_img = 0
    /\ cleaned_img = 0
    /\ runs = <<>>
    /\ calls = <<>>
    /\ clock = 0
    /\ drawn = <<>>

WtValues == {NaN, Whole(-1), Whole(0), Whole(1), Whole(100)}

\* the 2-D images of at most MaxCells pixels, and two arrays that are not 2-D
WtImages ==
    LET shapes == {hw \in (1 .. MaxCells) \X (1 .. MaxCells) : hw[1] * hw[2] <= MaxCells}
        flat == UNION {{Grid(hw[1], hw[2], f) : f \in [Cells(hw[1], hw[2]) -> WtValues]} :
                          hw \in shapes}
    IN  flat \cup {[Grid(1, 1, [p \in Cells(1, 1) |-> x]) EXCEPT !.ndim = n] :
                      x \in {NaN, Whole(1)}, n \in {1, 3}}

WtParams ==
    {DefaultParams,
     [DefaultParams EXCEPT !.noise_distribution = TRUE],
     [DefaultParams EXCEPT !.input_image_scale = "log"],
     [DefaultParams EXCEPT !.input_image_scale = "sqrt",
                           !.offset_after_calibration = Some(0),
                           !.suppress_last_scale = TRUE],
     [DefaultParams EXCEPT !.offset_after_calibration = Some(3),
                           !.correction_offset = TRUE,
                           !.kill_isolated_pixels = TRUE]}

WaveletInit ==
    /\ algo = "wavelet"
    /\ pc = "begin"
    /\ \E g \in WtImages :
          /\ heap = <<g>>
          /\ orig = g
    /\ img = 1
    /\ params \in WtParams
    /\ sink \in {NoDict, [present |-> TRUE, d |-> EmptyDict]}
    /\ high_threshold = 0
    /\ low_threshold = 0
    /\ masks = <<>>
    /\ dilated = <<>>
    /\ ret = <<>>
    /\ err = ""
    /\ fs = EmptyDict
    /\ input_file_path = None
    /\ mr_output_file_path = None
    /\ nan_mask = EmptyDict
    /\ input_img = 0
    /\ cleaned_img = 0
    /\ runs = <<>>
    /\ calls = <<>>
    /\ clock = 0
    /\ drawn = <<>>

\* The caller runs clean_image: first on its image, then on what the
\* previous call returned, with the same thresholds.
TailcutClean ==
    /\ algo = "tailcut"
    /\ pc = "call"
    /\ Len(ret) < MaxCalls
    /\ LET arg == IF ret = <<>> THEN img ELSE ret[Len(ret)]
           g == heap[arg]
           final_mask == final_mask_of(g, high_threshold, low_threshold)
       IN  /\ heap' = Append(heap, cleaned_img_of(g, final_mask))
           /\ ret' = Append(ret, Len(heap) + 1)
           /\ masks' = Append(masks, final_mask)
           /\ dilated' = Append(dilated, high_mask_dilated_of(g, high_threshold))
    /\ UNCHANGED <<ccvars, drawn>>
    /\ UNCHANGED <<algo, pc, img, orig, err, high_threshold, low_threshold, wtvars>>

Init == TailcutInit \/ WaveletInit

RECURSIVE OptionSets(_)

\* one call of WaveletTransform.clean_image(g, ...) with the options par and
\* the sink s, about to start
CallInit(g, par, s) ==
    /\ algo = "wavelet"
    /\ pc = "begin"
    /\ heap = <<g>>
    /\ orig = g
    /\ img = 1
    /\ params = par
    /\ sink = s
    /\ high_threshold = 0
    /\ low_threshold = 0
    /\ masks = <<>>
    /\ dilated = <<>>
    /\ ret = <<>>
    /\ err = ""
    /\ fs = EmptyDict
    /\ input_file_path = None
    /\ mr_output_file_path = None
    /\ nan_mask = EmptyDict
    /\ input_img = 0
    /\ cleaned_img = 0
    /\ runs = <<>>
    /\ calls = <<>>
    /\ clock = 0
    /\ drawn = <<>>

\* the 2-D images of at most MaxCells pixels with values in vs
ImagesOver(vs) ==
    LET shapes == {hw \in (1 .. MaxCells) \X (1 .. MaxCells) : hw[1] * hw[2] <= MaxCells}
    IN  UNION {{Grid(hw[1], hw[2], f) : f \in [Cells(hw[1], hw[2]) -> vs]} :
                  hw \in shapes}

\* pixel values whose logarithm, or square root, is exact once the offset
\* is added; in linear scale 0.5 is a value too
ScaleValues(par) ==
    CASE par.input_image_scale = "log" /\ par.offset_after_calibration # None ->
            {NaN, Whole(-9), Whole(1), Whole(91)}
      [] par.input_image_scale = "log" -> {NaN, Whole(-1), Whole(0), Whole(10)}
      [] par.input_image_scale = "sqrt" -> {NaN, Whole(-1), Whole(0), Whole(9)}
      [] OTHER -> {NaN, Whole(0), Num(1), Whole(1)}

\* the scale, offset, last-scale, correction and noise options; the offset
\* is 1.5 in linear scale and 9 in log scale
PipelineParams ==
    {[DefaultParams EXCEPT !.offset_after_calibration = o,
                           !.suppress_last_scale = K,
                           !.correction_offset = c] :
        o \in {None, Some(3)}, K \in BOOLEAN, c \in BOOLEAN}
    \cup {[DefaultParams EXCEPT !.noise_distribution = TRUE,
                                !.offset_after_calibration = Some(3)],
          [DefaultParams EXCEPT !.noise_distribution = TRUE,
                                !.correction_offset = TRUE],
          [DefaultParams EXCEPT !.offset_after_calibration = Some(3),
                                !.raw_option_string = Some("-K -k")]}
    \cup {[DefaultParams EXCEPT !.input_image_scale = "log",
                                !.correction_offset = c,
                                !.noise_distribution = n] :
            c \in BOOLEAN, n \in BOOLEAN}
    \cup {[DefaultParams EXCEPT !.input_image_scale = "log",
                                !.offset_after_calibration = Some(9 * Unit),
                                !.suppress_last_scale = K] : K \in BOOLEAN}
    \cup {[DefaultParams EXCEPT !.input_image_scale = "sqrt",
                                !.correction_offset = c] : c \in BOOLEAN}

PipelineInit ==
    \E par \in PipelineParams :
       \E g \in ImagesOver(ScaleValues(par)) :
          CallInit(g, par, [present |-> TRUE, d |-> EmptyDict])

PipelineNext ==
    \/ WtBegin
    \/ WtSave
    \/ WtExec
    \/ WtLoad
    \/ WtRemove
    \/ WtFinish

PipelineSpec == PipelineInit /\ [][PipelineNext]_vars

\* a dictionary the caller filled before the call, one key being a key
\* the call writes
Prefilled ==
    [present |-> TRUE,
     d |-> Put(Put(EmptyDict, "note", "mine"), "img_cleaned_num_islands", 99)]

SinkParams ==
    {DefaultParams,
     [DefaultParams EXCEPT !.mask_file_path = Some("file.fits")],
     [DefaultParams EXCEPT !.correction_offset = TRUE,
                           !.kill_isolated_pixels = TRUE],
     [DefaultParams EXCEPT !.input_image_scale = "log",
                           !.noise_distribution = TRUE]}

\* calls without output_data_dict, with an empty one, with a filled one
SinkInit ==
    \E par \in SinkParams :
       \E g \in ImagesOver(ScaleValues(par)) :
          \E s \in {NoDict, [present |-> TRUE, d |-> EmptyDict], Prefilled} :
             CallInit(g, par, s)

SinkSpec == SinkInit /\ [][PipelineNext]_vars

\* the keyword arguments that are true or false
BooleanOptions ==
    {"suppress_last_scale", "suppress_isolated_pixels", "kill_isolated_pixels",
     "detect_only_positive_structure", "suppress_positivity_constraint",
     "correction_offset", "noise_distribution", "verbose"}

\* a value for a keyword argument that is given
GivenValue(name) ==
    CASE name \in BooleanOptions -> TRUE
      [] name = "number_of_scales" -> Some(4)
      [] name \in {"support_file_name", "mask_file_path"} -> Some("file.fits")
      [] name = "mrfilter_directory" -> Some("/opt/bin")
      [] name = "input_image_scale" -> "log"
      [] name = "offset_after_calibration" -> Some(9 * Unit)
      [] OTHER -> Some(1)

\* the sets of at most k keyword arguments, raw_option_string left out
OptionSets(k) ==
    IF k = 0 THEN {{}}
    ELSE LET smaller == OptionSets(k - 1)
         IN  smaller \cup {S \cup {name} :
                              S \in smaller,
                              name \in DOMAIN DefaultParams \ {"raw_option_string"}}

\* calls on the image [[1.0]] with at most MaxOptions keyword arguments
\* given, and with or without a raw option string
CommandInit ==
    \E given \in OptionSets(MaxOptions) :
       \E raw \in {None, Some("-K -k -C1 -m3 -s3 -n4")} :
          CallInit(Grid(1, 1, [p \in Cells(1, 1) |-> Whole(1)]),
                   [name \in DOMAIN DefaultParams |->
                       IF name = "raw_option_string" THEN raw
                       ELSE IF name \in given THEN GivenValue(name)
                       ELSE DefaultParams[name]],
                   NoDict)

CommandSpec == CommandInit /\ [][PipelineNext]_vars

----------------------------------------------------------------------------
(* Several calls of WaveletTransform.clean_image at the same time, in       *)
(* threads of one process (same pid) or in several processes, with the same *)
(* tmp_files_directory.  Only what touches the temporary files is kept: a   *)
(* file holds the number of the call whose image it carries.                *)

solo == <<algo, pc, heap, img, orig, ret, err, tcvars, params, sink,
          input_file_path, mr_output_file_path, nan_mask, input_img,
          cleaned_img, runs, drawn>>

ConcurrentInit ==
    /\ algo = "concurrent"
    /\ pc = "idle"
    /\ heap = <<>>
    /\ img = 0
    /\ orig = None
    /\ ret = <<>>
    /\ err = ""
    /\ high_threshold = 0
    /\ low_threshold = 0
    /\ masks = <<>>
    /\ dilated = <<>>
    /\ params = DefaultParams
    /\ sink = NoDict
    /\ fs = EmptyDict
    /\ input_file_path = None
    /\ mr_output_file_path = None
    /\ nan_mask = EmptyDict
    /\ input_img = 0
    /\ cleaned_img = 0
    /\ runs = <<>>
    /\ \E pids \in [1 .. MaxThreads -> 1 .. MaxPid] :
          calls = [i \in 1 .. MaxThreads |->
                      [pid |-> pids[i], pc |-> "begin", input_file_path |-> None,
                       mr_output_file_path |-> None, loaded |-> None]]
    /\ clock = 0
    /\ drawn = <<>>

\* the clock of the machine advances
Tick ==
    /\ algo = "concurrent"
    /\ clock < MaxClock
    /\ clock' = clock + 1
    /\ UNCHANGED <<calls, fs, solo>>

\* lines 124-125: the two paths, from two readings of the clock
CcBegin(i) ==
    /\ algo = "concurrent"
    /\ calls[i].pc = "begin"
    /\ \E later \in {clock, clock + 1} :
          /\ later <= MaxClock
          /\ clock' = later
          /\ calls' = [calls EXCEPT
                         ![i].input_file_path = TmpPathAt(calls[i].pid, clock, "in"),
                         ![i].mr_output_file_path = TmpPathAt(calls[i].pid, later, "out"),
                         ![i].pc = "save"]
    /\ UNCHANGED <<fs, solo>>

\* lines 176-184: images.save(input_img, input_file_path)
CcSave(i) ==
    /\ algo = "concurrent"
    /\ calls[i].pc = "save"
    /\ fs' = (calls[i].input_file_path :> i) @@ fs
    /\ calls' = [calls EXCEPT ![i].pc = "exec"]
    /\ UNCHANGED <<clock, solo>>

\* line 232: mr_filter filters what it finds at the input path
CcExec(i) ==
    /\ algo = "concurrent"
    /\ calls[i].pc = "exec"
    /\ fs' = IF calls[i].input_file_path \in DOMAIN fs
             THEN (calls[i].mr_output_file_path :> fs[calls[i].input_file_path]) @@ fs
             ELSE fs
    /\ calls' = [calls EXCEPT ![i].pc = "load"]
    /\ UNCHANGED <<clock, solo>>

\* lines 242-250: cleaned_img = images.load(mr_output_file_path, 0)
CcLoad(i) ==
    /\ algo = "concurrent"
    /\ calls[i].pc = "load"
    /\ calls' = IF calls[i].mr_output_file_path \in DOMAIN fs
                THEN [calls EXCEPT ![i].loaded = Some(fs[calls[i].mr_output_file_path]),
                                   ![i].pc = "remove"]
                ELSE [calls EXCEPT ![i].pc = "raised"]
    /\ UNCHANGED <<fs, clock, solo>>

\* lines 254-255: os.remove of the two files; os.remove of a file that is
\* not there raises
CcRemove(i) ==
    /\ algo = "concurrent"
    /\ calls[i].pc = "remove"
    /\ LET a == calls[i].input_file_path
           b == calls[i].mr_output_file_path
       IN  IF a \notin DOMAIN fs
           THEN /\ fs' = fs
                /\ calls' = [calls EXCEPT ![i].pc = "raised"]
           ELSE IF b \notin DOMAIN fs
           THEN /\ fs' = [f \in DOMAIN fs \ {a} |-> fs[f]]
                /\ calls' = [calls EXCEPT ![i].pc = "raised"]
           ELSE /\ fs' = [f \in DOMAIN fs \ {a, b} |-> fs[f]]
                /\ calls' = [calls EXCEPT ![i].pc = "returned"]
    /\ UNCHANGED <<clock, solo>>

ConcurrentNext ==
    \/ Tick
    \/ \E i \in 1 .. MaxThreads : CcBegin(i)
    \/ \E i \in 1 .. MaxThreads : CcSave(i)
    \/ \E i \in 1 .. MaxThreads : CcExec(i)
    \/ \E i \in 1 .. MaxThreads : CcLoad(i)
    \/ \E i \in 1 .. MaxThreads : CcRemove(i)

ConcurrentSpec == ConcurrentInit /\ [][ConcurrentNext]_vars

Next ==
    \/ TailcutClean
    \/ WtBegin
    \/ WtSave
    \/ WtExec
    \/ WtLoad
    \/ WtRemove
    \/ WtFinish

Spec == Init /\ [][Next]_vars

\* the Tailcut caller alone: clean_image called again on what it returned
TailcutNext == TailcutClean

TailcutSpec == TailcutInit /\ [][TailcutNext]_vars

----------------------------------------------------------------------------
(* Vocabulary of the properties, written without the operators above *)

\* x >= t as IEEE-754 compares: false for NaN
Above(x, t) == x.k = "pinf" \/ (x.k = "num" /\ x.v >= t)

\* x * keep as IEEE-754 multiplies by 1.0 or 0.0
Times(x, keep) ==
    IF keep THEN x ELSE IF x.k = "num" THEN [k |-> "num", v |-> 0]
                        ELSE [k |-> "nan", v |-> 0]

Zero == [k |-> "num", v |-> 0]

Abs(n) == IF n < 0 THEN 0 - n ELSE n

\* q is p or one of its 8 neighbours
Near(p, q) == Abs(p[1] - q[1]) <= 1 /\ Abs(p[2] - q[2]) <= 1

TcCalls == IF algo = "tailcut" THEN 1 .. Len(ret) ELSE {}
TcIn(k) == heap[IF k = 1 THEN img ELSE ret[k - 1]]
TcOut(k) == heap[ret[k]]
TcCells(k) == DOMAIN TcIn(k).px

\* C1: a pixel is in the final mask iff its own value is >= low_threshold and
\* some pixel at Chebyshev distance <= 1 (itself included) is >= high_threshold
C1_Hysteresis ==
    \A k \in TcCalls : \A p \in TcCells(k) :
        masks[k][p] <=>
            /\ Above(TcIn(k).px[p], low_threshold)
            /\ \E q \in TcCells(k) : Near(p, q) /\ Above(TcIn(k).px[q], high_threshold)

C1_Witness ==
    /\ algo = "tailcut" /\ Len(ret) >= 1
    /\ \E p \in TcCells(1) :
          masks[1][p] /\ ~Above(TcIn(1).px[p], high_threshold)
    /\ \E p \in TcCells(1) :
          ~masks[1][p] /\ Above(TcIn(1).px[p], low_threshold)

\* C2: the dilated high mask is exactly the one-ring 8-neighbourhood dilation
\* of the high mask: a cell is set iff a high pixel lies within one row and
\* one column of it (nothing two steps away, nothing across an edge)
C2_OneRing ==
    \A k \in TcCalls : \A p \in TcCells(k) :
        dilated[k][p] <=>
            \E q \in TcCells(k) : Near(p, q) /\ Above(TcIn(k).px[q], high_threshold)

C2_Witness ==
    /\ algo = "tailcut" /\ Len(ret) >= 1
    /\ TcIn(1).w >= 3 /\ TcIn(1).h >= 3
    /\ Above(TcIn(1).px[<<0, 0>>], high_threshold)
    /\ dilated[1][<<1, 1>>]
    /\ ~dilated[1][<<0, 2>>] /\ ~dilated[1][<<2, 0>>] /\ ~dilated[1][<<2, 2>>]

\* C3: every pixel outside the final mask is exactly zero in the output, also
\* when the input pixel is invalid (NaN)
C3_MaskedIsZero ==
    \A k \in TcCalls : \A p \in TcCells(k) :
        ~masks[k][p] => TcOut(k).px[p] = Zero

\* C4: with high_threshold = low_threshold = t the output is image * (image >= t)
C4_EqualThresholds ==
    \A k \in TcCalls :
        high_threshold = low_threshold =>
            TcOut(k) = [ndim |-> 2, h |-> TcIn(k).h, w |-> TcIn(k).w,
                        px |-> [p \in TcCells(k) |->
                                  Times(TcIn(k).px[p],
                                        Above(TcIn(k).px[p], low_threshold))]]

C4_Witness ==
    /\ algo = "tailcut" /\ Len(ret) >= 1
    /\ high_threshold = low_threshold
    /\ \E p, q \in TcCells(1) :
          /\ p # q /\ Near(p, q)
          /\ Above(TcIn(1).px[q], high_threshold)
          /\ TcIn(1).px[p].k = "num" /\ TcIn(1).px[p].v # 0
          /\ TcOut(1).px[p] = Zero

\* C5: on the 5x5 all-zero grid with 100 at (2,2), high = low = 50, no output
\* pixel outside the 3x3 block around (2,2) is nonzero and every output pixel
\* is 100 or 0; and for any image with a single pixel >= high_threshold every
\* nonzero output pixel lies in the 3x3 block around it and equals its input
C5_SinglePeak ==
    \A k \in TcCalls :
        LET high == {q \in TcCells(k) : Above(TcIn(k).px[q], high_threshold)}
        IN  /\ (k = 1 /\ TcIn(k).h = 5) =>
                 \A p \in TcCells(k) :
                    /\ TcOut(k).px[p] \in {Zero, [k |-> "num", v |-> 100 * Unit]}
                    /\ TcOut(k).px[p] # Zero => Near(p, <<2, 2>>)
            /\ Cardinality(high) = 1 =>
                 \A p \in TcCells(k) : \A q \in high :
                    TcOut(k).px[p] # Zero =>
                        Near(p, q) /\ TcOut(k).px[p] = TcIn(k).px[p]

\* C6: with low_threshold > high_threshold the output is
\* image * (image >= low_threshold)
C6_LowAboveHigh ==
    \A k \in TcCalls :
        low_threshold > high_threshold =>
            TcOut(k) = [ndim |-> 2, h |-> TcIn(k).h, w |-> TcIn(k).w,
                        px |-> [p \in TcCells(k) |->
                                  Times(TcIn(k).px[p],
                                        Above(TcIn(k).px[p], low_threshold))]]

C6_Witness ==
    /\ algo = "tailcut" /\ Len(ret) >= 1
    /\ low_threshold > high_threshold
    /\ \E p \in TcCells(1) :
          /\ Above(TcIn(1).px[p], high_threshold)
          /\ ~Above(TcIn(1).px[p], low_threshold)
          /\ TcOut(1).px[p] = Zero
    /\ \E p \in TcCells(1) : TcOut(1).px[p].k = "num" /\ TcOut(1).px[p].v # 0

\* C7 as claimed: with high_threshold >= low_threshold of any sign, Tailcut
\* run on its own output computes the same final mask
C7_MaskIdempotentAnySign ==
    \A k \in TcCalls :
        (k >= 2 /\ high_threshold >= low_threshold) => masks[k] = masks[k - 1]

\* C7 as amended: with high_threshold >= low_threshold > 0, Tailcut run on
\* its own output computes the same final mask
C7_MaskIdempotent ==
    \A k \in TcCalls :
        (k >= 2 /\ high_threshold >= low_threshold /\ low_threshold > 0) =>
            masks[k] = masks[k - 1]

C7_Witness ==
    /\ algo = "tailcut" /\ Len(ret) >= 2
    /\ high_threshold > low_threshold /\ low_threshold > 0
    /\ \E p, q \in TcCells(1) :
          /\ masks[2][p]
          /\ ~masks[2][q] /\ Above(TcIn(1).px[q], low_threshold)

Returned == {heap[ret[k]] : k \in 1 .. Len(ret)}

\* C8: every image a cleaning call returns has the height and the width of
\* the caller's image; WaveletTransform returns nothing when the grid read
\* from the output file has another height or width
C8_ShapePreserved ==
    /\ \A g \in Returned : g.ndim = 2 /\ g.h = orig.h /\ g.w = orig.w
    /\ (algo = "wavelet" /\ pc \in {"raised", "returned"} /\ cleaned_img # 0
          /\ <<heap[cleaned_img].h, heap[cleaned_img].w>> # <<orig.h, orig.w>>)
         => ret = <<>>

C8_Witness ==
    /\ algo = "wavelet" /\ pc = "raised" /\ err = "IndexError"
    /\ heap[cleaned_img].ndim = 2
    /\ heap[cleaned_img].h # orig.h
    /\ ret = <<>>

\* C9: no call changes a pixel of the caller's image, and no call returns the
\* caller's array itself, whether the call returns or raises
C9_InputUntouched ==
    /\ heap[img] = orig
    /\ \A k \in 1 .. Len(ret) : ret[k] # img

C9_Witness ==
    /\ algo = "wavelet" /\ pc = "returned"
    /\ params.noise_distribution
    /\ \E p \in DOMAIN orig.px : orig.px[p].k = "nan"
    /\ \A p \in DOMAIN orig.px : heap[input_img].px[p].k # "nan"

WtReturned == algo = "wavelet" /\ pc = "returned"
WtOut == heap[ret[1]]
ExtOut == runs[1].out[1]
Invalid(x) == x.k = "nan"

\* C11: with isolated-pixel removal not requested, every pixel that is NaN in
\* the input image is NaN in the returned image, whatever mr_filter wrote at
\* that place and whatever the scale, offset and correction options are
C11_InvalidRestored ==
    (WtReturned /\ ~params.kill_isolated_pixels) =>
        \A p \in DOMAIN orig.px :
            Invalid(orig.px[p]) => p \in DOMAIN WtOut.px /\ Invalid(WtOut.px[p])

C11_Witness ==
    /\ WtReturned
    /\ params.input_image_scale = "log" /\ params.correction_offset
    /\ params.noise_distribution
    /\ \E p, q \in DOMAIN orig.px :
          /\ Invalid(orig.px[p]) /\ ExtOut.px[p].k = "num"
          /\ WtOut.px[q].k = "num"

\* C12 as claimed: for an input with a non-empty invalid set, the invalid set
\* of the returned image equals the invalid set of the input, whatever
\* mr_filter returns
C12_InvalidSetEqual ==
    (WtReturned /\ \E p \in DOMAIN orig.px : Invalid(orig.px[p])) =>
        \A p \in DOMAIN orig.px : Invalid(orig.px[p]) <=> Invalid(WtOut.px[p])

\* C12 as amended: for an input with a non-empty invalid set, with neither
\* the correction offset nor isolated-pixel removal requested, the invalid
\* set of the returned image equals the invalid set of the input whenever
\* the output of mr_filter is valid at every pixel that is valid in the
\* input; a pixel that mr_filter leaves invalid is invalid in the returned
\* image
C12_InvalidSetEqualWhenExtValid ==
    (/\ WtReturned
     /\ ~params.correction_offset /\ ~params.kill_isolated_pixels
     /\ \E p \in DOMAIN orig.px : Invalid(orig.px[p])) =>
        /\ \A p \in DOMAIN orig.px : Invalid(ExtOut.px[p]) => Invalid(WtOut.px[p])
        /\ (\A p \in DOMAIN orig.px : ~Invalid(orig.px[p]) => ~Invalid(ExtOut.px[p])) =>
              \A p \in DOMAIN orig.px : Invalid(orig.px[p]) <=> Invalid(WtOut.px[p])

C12_Witness ==
    /\ WtReturned
    /\ ~params.correction_offset /\ ~params.kill_isolated_pixels
    /\ params.input_image_scale = "log"
    /\ \E p, q \in DOMAIN orig.px :
          /\ Invalid(orig.px[p]) /\ ~Invalid(ExtOut.px[p])
          /\ ~Invalid(orig.px[q]) /\ ~Invalid(ExtOut.px[q])
          /\ ExtOut.px[q] # runs[1].given.px[q]
          /\ Invalid(WtOut.px[p]) /\ ~Invalid(WtOut.px[q])

\* C13: when a call that created temporary files ends, by returning an image
\* or by an I/O error while writing the input file or reading the output
\* file, neither the input nor the output temporary file is on the filesystem
C13_NoTempFileLeft ==
    (algo = "wavelet" /\ pc \in {"returned", "raised"} /\ input_file_path # None) =>
        /\ input_file_path \notin DOMAIN fs
        /\ mr_output_file_path \notin DOMAIN fs

\* the concurrent calls that have their paths and have not ended
InProgress == {i \in DOMAIN calls : calls[i].pc \in {"save", "exec", "load", "remove"}}

\* C14: two calls in progress at the same time, in different processes or in
\* threads of one process, have pairwise different input and output paths,
\* and no call loads a file that carries the image of another call
C14_NoCollision ==
    /\ \A i, j \in InProgress :
          i # j => {calls[i].input_file_path, calls[i].mr_output_file_path}
                      \cap {calls[j].input_file_path, calls[j].mr_output_file_path} = {}
    /\ \A i \in DOMAIN calls : calls[i].loaded \in {None, Some(i)}

\* the options that stand for a flag of mr_filter, in the order of the
\* flags, and the flag of each
FlagOptions ==
    <<"type_of_multiresolution_transform", "type_of_filters",
      "type_of_non_orthog_filters", "number_of_scales", "suppress_last_scale",
      "suppress_isolated_pixels", "coef_detection_method",
      "k_sigma_noise_threshold", "noise_model", "detect_only_positive_structure",
      "suppress_positivity_constraint", "type_of_filtering",
      "first_detection_scale", "number_of_iterations", "epsilon",
      "support_file_name", "precision", "mask_file_path", "verbose">>

FlagLetters ==
    <<"-t", "-T", "-U", "-n", "-K", "-k", "-C", "-s", "-m", "-p", "-P", "-f",
      "-F", "-i", "-e", "-w", "-E", "-I ", "-v">>

Switches == {"-K", "-k", "-p", "-P", "-v"}

\* the positions of FlagOptions whose option is not None, or is true
GivenFlags ==
    SelectSeq([i \in 1 .. Len(FlagOptions) |-> i],
              LAMBDA i : IF FlagLetters[i] \in Switches
                         THEN params[FlagOptions[i]]
                         ELSE params[FlagOptions[i]] # <<>>)

\* part i of the command line c is the quoted path
IsQuoted(c, i, path) ==
    i \in DOMAIN c /\ c[i].w = "\"{}\"" /\ c[i].a = <<path>>

\* the command line c ends after part n, but for the redirection of the
\* standard output when verbose is off
EndsAfter(c, n) ==
    IF params.verbose THEN Len(c) = n
    ELSE Len(c) = n + 1 /\ c[n + 1].w = "> /dev/null"

\* C15: without raw option string the command line is the program, then one
\* flag for each flag option that is not None (or is true), in the fixed
\* order, nothing for the other options, then the quoted input path and the
\* quoted output path; with only number_of_scales = 4 and
\* suppress_last_scale the flags are -n4 and -K
C15_OneFlagPerOption ==
    \A k \in DOMAIN runs :
        params.raw_option_string = <<>> =>
            LET c == runs[k].cmd
                n == Len(GivenFlags)
            IN  /\ c[1].w = "mr_filter"
                /\ Len(c) >= n + 3
                /\ \A i \in 1 .. n :
                      /\ c[1 + i].w = FlagLetters[GivenFlags[i]]
                      /\ c[1 + i].a = IF c[1 + i].w \in Switches THEN <<>>
                                      ELSE params[FlagOptions[GivenFlags[i]]]
                /\ IsQuoted(c, n + 2, input_file_path)
                /\ IsQuoted(c, n + 3, mr_output_file_path)
                /\ EndsAfter(c, n + 3)
                /\ params = [DefaultParams EXCEPT !.number_of_scales = <<4>>,
                                                  !.suppress_last_scale = TRUE] =>
                      /\ Len(c) = 6
                      /\ c[2].w = "-n" /\ c[2].a = <<4>>
                      /\ c[3].w = "-K" /\ c[3].a = <<>>

C15_Witness ==
    /\ algo = "wavelet" /\ Len(runs) = 1
    /\ params = [DefaultParams EXCEPT !.number_of_scales = <<4>>,
                                      !.suppress_last_scale = TRUE]
    /\ Len(runs[1].cmd) = 6

\* C16: with a raw option string the command line is the program, the raw
\* string, the quoted input path and the quoted output path: no flag comes
\* from the other options, -v included, whatever their values
C16_RawReplacesFlags ==
    \A k \in DOMAIN runs :
        params.raw_option_string # <<>> =>
            LET c == runs[k].cmd
            IN  /\ c[1].w = "mr_filter"
                /\ c[2].w = "raw" /\ c[2].a = params.raw_option_string
                /\ IsQuoted(c, 3, input_file_path)
                /\ IsQuoted(c, 4, mr_output_file_path)
                /\ EndsAfter(c, 4)

C16_Witness ==
    /\ algo = "wavelet" /\ Len(runs) = 1
    /\ params.raw_option_string # <<>>
    /\ params.verbose /\ params.number_of_scales # <<>>
    /\ Len(runs[1].cmd) = 4

\* mr_filter left at the output path what it found at the input path
ExtIdentity == runs[1].out = <<runs[1].given>>

\* C17: with the log scale, no offset, no noise, no correction offset and
\* mr_filter returning its input, the returned image equals the input at
\* every pixel > 0 and is NaN at every pixel <= 0, a pixel 0 included
C17_LogRoundTrip ==
    (/\ WtReturned /\ ExtIdentity
     /\ params.input_image_scale = "log"
     /\ params.offset_after_calibration = <<>>
     /\ ~params.noise_distribution /\ ~params.correction_offset
     /\ ~params.kill_isolated_pixels) =>
        \A p \in DOMAIN orig.px :
            /\ (orig.px[p].k = "num" /\ orig.px[p].v > 0) => WtOut.px[p] = orig.px[p]
            /\ (orig.px[p].k = "num" /\ orig.px[p].v <= 0) => Invalid(WtOut.px[p])

\* the finite values of g have minimum 0 and none is strictly between 0 and 1
Floored(g) ==
    /\ \E p \in DOMAIN g.px : g.px[p] = Zero
    /\ \A p \in DOMAIN g.px :
          g.px[p].k = "num" => g.px[p].v >= 0 /\ ~(0 < g.px[p].v /\ g.px[p].v < Unit)

\* C18 as claimed: with the correction offset (no isolated-pixel removal),
\* whenever the output of mr_filter has a finite value, the finite values of
\* the returned image have minimum 0 and none is strictly between 0 and 1
C18_FloorWhenExtFinite ==
    (/\ WtReturned
     /\ params.correction_offset /\ ~params.kill_isolated_pixels
     /\ \E p \in DOMAIN ExtOut.px : ExtOut.px[p].k = "num") =>
        Floored(WtOut)

\* C18 as amended: with the correction offset (no isolated-pixel removal),
\* whenever the returned image has a finite value, its finite values have
\* minimum 0 and none is strictly between 0 and 1
C18_FloorWhenFinite ==
    (/\ WtReturned
     /\ params.correction_offset /\ ~params.kill_isolated_pixels
     /\ \E p \in DOMAIN WtOut.px : WtOut.px[p].k = "num") =>
        Floored(WtOut)

C18_Witness ==
    /\ WtReturned
    /\ params.correction_offset /\ ~params.kill_isolated_pixels
    /\ \E p, q \in DOMAIN ExtOut.px :
          /\ ExtOut.px[p].k = "num" /\ ExtOut.px[q].k = "num"
          /\ ExtOut.px[q].v = ExtOut.px[p].v + 1
          /\ WtOut.px[p] = Zero /\ WtOut.px[q] = Zero

\* x - c as IEEE-754 subtracts a finite c
Minus(x, c) == IF x.k = "num" THEN [k |-> "num", v |-> x.v - c] ELSE x

\* C20: the offset is subtracted from the returned image iff an offset is
\* given and suppress_last_scale is false, whatever the raw option string
\* holds; with the linear scale, an offset, suppress_last_scale false and
\* mr_filter returning its input, the returned image equals the input at
\* every valid pixel
C20_OffsetInverted ==
    (WtReturned /\ ~params.correction_offset /\ ~params.kill_isolated_pixels) =>
        LET subtracted == /\ params.offset_after_calibration # <<>>
                          /\ ~params.suppress_last_scale
            before == InvertScale(ExtOut, params)
        IN  /\ \A p \in DOMAIN orig.px :
                  ~Invalid(orig.px[p]) =>
                      WtOut.px[p] = IF subtracted
                                    THEN Minus(before.px[p],
                                               params.offset_after_calibration[1])
                                    ELSE before.px[p]
            /\ (subtracted /\ params.input_image_scale = "linear" /\ ExtIdentity) =>
                  \A p \in DOMAIN orig.px :
                      ~Invalid(orig.px[p]) => WtOut.px[p] = orig.px[p]

C20_Witness ==
    /\ WtReturned /\ ExtIdentity
    /\ params.raw_option_string # <<>>
    /\ params.offset_after_calibration # <<>> /\ ~params.suppress_last_scale
    /\ \E p \in DOMAIN orig.px : orig.px[p].k = "num" /\ WtOut.px[p] = orig.px[p]

\* the keys clean_image writes into output_data_dict
WrittenKeys ==
    {"mr_input_tmp_file_path", "mr_output_tmp_file_path", "mr_mask_file_path",
     "save_tmp_file_time_sec", "mrfilter_cmd_exec_time_sec",
     "load_tmp_file_time_sec", "img_cleaned_islands_delta_pe",
     "img_cleaned_islands_delta_abs_pe", "img_cleaned_islands_delta_num_pixels",
     "img_cleaned_num_islands", "scipy_kill_isolated_pixels_time_sec"}

\* what a call hands to mr_filter, from the image and the options alone
HandedOver ==
    {LET a == IF params.offset_after_calibration # <<>>
              THEN Offset(h[1], params) ELSE h[1]
     IN  IF params.input_image_scale \in {"log", "sqrt"}
         THEN Scale(a, params) ELSE a : h \in Injected(<<orig>>, 1, params)}

\* what a call returns, from the image, the options and the output of
\* mr_filter alone
ReturnedFor(out) ==
    LET g == CorrectionOffset(
                 InvertOffset(
                     InvertScale(RestoreNaN(out, IsNaNMask(orig)), params),
                     params),
                 params)
    IN  IF params.kill_isolated_pixels THEN kill_isolated_pixels(g) ELSE g

\* the image is a function of the image given, the options and mr_filter;
\* without dictionary there is none at any time and no error comes from it
SinkNotRead ==
    algo = "wavelet" =>
        /\ \A k \in DOMAIN runs : runs[k].given \in HandedOver
        /\ pc = "returned" => WtOut = ReturnedFor(ExtOut)
        /\ err \in {"", "IOError", "WrongDimensionError", "IndexError"}
        /\ ~sink.present => sink.d = EmptyDict

\* a step keeps the dictionary a dictionary, keeps every key, and every
\* entry whose key is not one the call writes
SinkOnlyInserted ==
    /\ sink'.present = sink.present
    /\ DOMAIN sink.d \subseteq DOMAIN sink'.d
    /\ DOMAIN sink'.d \subseteq DOMAIN sink.d \cup WrittenKeys
    /\ \A key \in DOMAIN sink.d \ WrittenKeys : sink'.d[key] = sink.d[key]

\* C19: output_data_dict never influences the cleaning: the returned image
\* is determined by the image, the options and mr_filter whether the
\* dictionary is absent, empty or filled; the call only inserts entries, and
\* without dictionary it completes without an error from it
C19_SinkNeverInfluences == []SinkNotRead /\ [][SinkOnlyInserted]_vars

C19_Witness ==
    /\ WtReturned
    /\ sink.present
    /\ "note" \in DOMAIN sink.d
    /\ sink.d["img_cleaned_num_islands"] # 99
    /\ "mr_input_tmp_file_path" \in DOMAIN sink.d

\* b to the power x as IEEE-754 raises a base b > 1, x a whole number
Raise(b, x) ==
    CASE x.k = "nan" -> x
      [] x.k = "pinf" -> x
      [] x.k = "ninf" -> Zero
      [] OTHER -> [k |-> "num", v |-> Unit * IntPow(b, x.v \div Unit)]

\* C21: mr_filter's output v becomes 10^v with the log scale, 2^v (not v
\* squared) with the sqrt scale and stays v with the linear scale; with the
\* sqrt scale and mr_filter returning its input, a pixel x >= 0 comes back
\* as 2^sqrt(x)
C21_ScaleInversion ==
    (/\ WtReturned
     /\ params.offset_after_calibration = <<>>
     /\ ~params.correction_offset /\ ~params.kill_isolated_pixels) =>
        /\ \A p \in DOMAIN orig.px :
              ~Invalid(orig.px[p]) =>
                  WtOut.px[p] =
                      CASE params.input_image_scale = "log" -> Raise(10, ExtOut.px[p])
                        [] params.input_image_scale = "sqrt" -> Raise(2, ExtOut.px[p])
                        [] OTHER -> ExtOut.px[p]
        /\ (params.input_image_scale = "sqrt" /\ ExtIdentity) =>
              \A p \in DOMAIN orig.px :
                  (orig.px[p].k = "num" /\ orig.px[p].v >= 0) =>
                      \E r \in 0 .. orig.px[p].v :
                          /\ r * r * Unit = orig.px[p].v
                          /\ WtOut.px[p] = [k |-> "num", v |-> Unit * IntPow(2, r)]

C21_Witness ==
    /\ WtReturned /\ ExtIdentity
    /\ params.input_image_scale = "sqrt"
    /\ ~params.correction_offset
    /\ \E p \in DOMAIN orig.px :
          /\ orig.px[p] = [k |-> "num", v |-> 9 * Unit]
          /\ WtOut.px[p] = [k |-> "num", v |-> 8 * Unit]

\* C22: with a noise distribution, as many samples are drawn as the input
\* has NaN pixels, every NaN pixel gets one of them and every other pixel is
\* kept, so no NaN pixel is left before the offset; the samples are offset
\* and scaled like the other pixels; without a noise distribution nothing is
\* drawn and the NaN pixels are NaN in the file given to mr_filter
C22_NoiseInjected ==
    algo = "wavelet" =>
        \A k \in DOMAIN runs :
            LET invalid == {p \in DOMAIN orig.px : Invalid(orig.px[p])}
            IN  IF params.noise_distribution
                THEN /\ Len(drawn) = 1
                     /\ Len(drawn[1]) = Cardinality(invalid)
                     /\ \E f \in [invalid -> DOMAIN drawn[1]] :
                           LET injected ==
                                   [orig EXCEPT !.px =
                                       [p \in DOMAIN orig.px |->
                                           IF p \in invalid THEN drawn[1][f[p]]
                                           ELSE orig.px[p]]]
                           IN  /\ \A p \in DOMAIN orig.px : ~Invalid(injected.px[p])
                               /\ runs[k].given = Scale(Offset(injected, params), params)
                ELSE /\ drawn = <<>>
                     /\ \A p \in invalid : Invalid(runs[k].given.px[p])

C22_Witness ==
    /\ algo = "wavelet" /\ Len(runs) = 1
    /\ params.noise_distribution /\ params.input_image_scale = "log"
    /\ \E p, q \in DOMAIN orig.px :
          /\ Invalid(orig.px[p]) /\ runs[1].given.px[p] = [k |-> "num", v |-> 2 * Unit]
          /\ orig.px[q] = [k |-> "num", v |-> 10 * Unit]
          /\ runs[1].given.px[q] = [k |-> "num", v |-> Unit]

\* the one run of mr_filter exited with a non-zero status
ExtFailed == algo = "wavelet" /\ Len(runs) = 1 /\ runs[1].status # 0

\* what the failed run left at the output path is a 2-D array
ExtLeftTwoD == runs[1].out # <<>> /\ runs[1].out[1].ndim = 2

\* C23 as claimed: after a run of mr_filter that exits non-zero the call
\* goes on; it fails only if the output file cannot be read or holds an array
\* that is not 2-D, and with a readable 2-D output it returns an image and
\* reports no error
C23_ExitStatusIgnored ==
    ExtFailed =>
        /\ pc = "raised" =>
              \/ err = "IOError" /\ runs[1].out = <<>>
              \/ err = "WrongDimensionError" /\ runs[1].out # <<>> /\ ~ExtLeftTwoD
        /\ pc = "returned" => err = ""
        /\ ExtLeftTwoD => pc \in {"load", "remove", "check", "returned"}

\* C23 as amended: after a run of mr_filter that exits non-zero the call
\* goes on; it fails only if the output file cannot be read, holds an array
\* that is not 2-D, or holds an array that has not the shape of the input;
\* with a readable 2-D output of the shape of the input it returns an image
\* and reports no error
C23_ExitStatusIgnoredSameShape ==
    ExtFailed =>
        /\ pc = "raised" =>
              \/ err = "IOError" /\ runs[1].out = <<>>
              \/ err = "WrongDimensionError" /\ runs[1].out # <<>> /\ ~ExtLeftTwoD
              \/ /\ err = "IndexError" /\ ExtLeftTwoD
                 /\ DOMAIN runs[1].out[1].px # DOMAIN orig.px
        /\ pc = "returned" =>
              /\ err = ""
              /\ ExtLeftTwoD /\ DOMAIN runs[1].out[1].px = DOMAIN orig.px
        /\ (ExtLeftTwoD /\ DOMAIN runs[1].out[1].px = DOMAIN orig.px) =>
              pc \in {"load", "remove", "check", "returned"}

C23_Witness ==
    /\ ExtFailed
    /\ pc = "returned" /\ err = ""
    /\ WtOut.px = orig.px

\* C24: the two temporary files are removed once the output file has been
\* read, before the dimension check of the output and everything after it:
\* from that check on, whether the call returns or raises, neither file is
\* on the filesystem
C24_RemovedBeforeCheck ==
    (algo = "wavelet" /\ cleaned_img # 0 /\ pc \in {"check", "returned", "raised"}) =>
        /\ input_file_path \notin DOMAIN fs
        /\ mr_output_file_path \notin DOMAIN fs

C24_Witness ==
    /\ algo = "wavelet" /\ cleaned_img # 0
    /\ pc = "raised" /\ err \in {"WrongDimensionError", "IndexError"}
    /\ Len(runs) = 1 /\ runs[1].out # <<>>
    /\ fs = EmptyDict

\* the image of a call that returned, as it was before the optional removal
\* of the isolated pixels
BeforeRemoval ==
    CorrectionOffset(
        InvertOffset(InvertScale(RestoreNaN(ExtOut, IsNaNMask(orig)), params),
                     params),
        params)

\* C25: on a call that returns, the four statistics recorded in a dictionary
\* are those of the image before the optional removal of the isolated
\* pixels; the removal and its timing entry happen only when
\* kill_isolated_pixels is set; without dictionary the call returns the same
\* image and records nothing
C25_StatisticsBeforeRemoval ==
    WtReturned =>
        /\ WtOut = IF params.kill_isolated_pixels
                   THEN kill_isolated_pixels(BeforeRemoval) ELSE BeforeRemoval
        /\ IF sink.present
           THEN /\ sink.d["img_cleaned_islands_delta_pe"] =
                       kill_isolated_pixels_stats(BeforeRemoval)[1]
                /\ sink.d["img_cleaned_islands_delta_abs_pe"] =
                       kill_isolated_pixels_stats(BeforeRemoval)[2]
                /\ sink.d["img_cleaned_islands_delta_num_pixels"] =
                       kill_isolated_pixels_stats(BeforeRemoval)[3]
                /\ sink.d["img_cleaned_num_islands"] = number_of_islands(BeforeRemoval)
                /\ "scipy_kill_isolated_pixels_time_sec" \in DOMAIN sink.d
                       <=> params.kill_isolated_pixels
           ELSE sink.d = EmptyDict

C25_Witness ==
    /\ WtReturned
    /\ sink.present /\ params.kill_isolated_pixels
    /\ sink.d["img_cleaned_num_islands"] = 1
    /\ sink.d["img_cleaned_islands_delta_num_pixels"] = 1
    /\ \A p \in DOMAIN WtOut.px : WtOut.px[p].k = "num" => WtOut.px[p].v = 0

\* every pixel of g is a finite number
AllFinite(g) == \A p \in DOMAIN g.px : g.px[p].k = "num"

\* C26: for an image of finite pixels and thresholds of any order and sign,
\* Tailcut run on its own output returns that output unchanged, also when
\* the mask it computes is not the mask of the first run
C26_ImageIdempotent ==
    \A k \in TcCalls :
        (k >= 2 /\ AllFinite(TcIn(1))) => TcOut(k) = TcOut(k - 1)

C26_Witness ==
    /\ algo = "tailcut" /\ Len(ret) >= 2
    /\ AllFinite(TcIn(1))
    /\ masks[2] # masks[1]
    /\ TcOut(2) # TcIn(1)
    /\ \E p \in TcCells(1) : TcOut(2).px[p].k = "num" /\ TcOut(2).px[p].v # 0

\* C27: raising a threshold never lets a removed pixel survive: for
\* thresholds high' >= high_threshold and low' >= low_threshold the final
\* mask of the image is a subset of its final mask with high_threshold and
\* low_threshold
C27_ThresholdMonotone ==
    (algo = "tailcut" /\ Len(ret) = 1) =>
        \A high \in Thresholds : \A low \in Thresholds :
            (high >= high_threshold /\ low >= low_threshold) =>
                \A p \in TcCells(1) :
                    final_mask_of(TcIn(1), high, low)[p] => masks[1][p]

C27_Witness ==
    /\ algo = "tailcut" /\ Len(ret) = 1
    /\ \E high \in Thresholds : \E low \in Thresholds :
          /\ high > high_threshold /\ low > low_threshold
          /\ \E p, q \in TcCells(1) :
                /\ masks[1][p] /\ ~final_mask_of(TcIn(1), high, low)[p]
                /\ final_mask_of(TcIn(1), high, low)[q]


\* the two paths a call recorded in its dictionary
SinkIn == sink.d["mr_input_tmp_file_path"]

SinkOut == sink.d["mr_output_tmp_file_path"]

\* a wavelet call with a dictionary has chosen its paths
PathsChosen == algo = "wavelet" /\ sink.present /\ input_file_path # None

\* the number of parts of the command line c up to its last path
PathsEnd(c) == IF params.verbose THEN Len(c) ELSE Len(c) - 1

\* from the choice of the paths on: the two recorded paths differ, no other
\* file is in the directory, and the command line names the recorded input
\* path and then the recorded output path
PathsKept ==
    PathsChosen =>
        /\ SinkIn # SinkOut
        /\ DOMAIN fs \subseteq {SinkIn, SinkOut}
        /\ \A k \in DOMAIN runs :
              /\ IsQuoted(runs[k].cmd, PathsEnd(runs[k].cmd) - 1, SinkIn)
              /\ IsQuoted(runs[k].cmd, PathsEnd(runs[k].cmd), SinkOut)

\* the save writes the recorded input path, the external program is given
\* the file at the recorded input path, the load reads the recorded output
\* path, and the removal deletes the two recorded paths, both of them there
PathsUsed ==
    PathsChosen =>
        /\ (pc = "save" /\ pc' = "exec") =>
              fs' = (SinkIn :> heap[input_img]) @@ fs
        /\ pc = "exec" => runs'[Len(runs')].given = fs[SinkIn]
        /\ (pc = "load" /\ pc' = "remove") =>
              heap'[cleaned_img'] = fs[SinkOut]
        /\ pc = "remove" =>
              /\ {SinkIn, SinkOut} \subseteq DOMAIN fs
              /\ DOMAIN fs' = DOMAIN fs \ {SinkIn, SinkOut}

\* C28: within one wavelet call one pair of paths is used throughout: the
\* input path recorded in the dictionary is the file written, the first path
\* of the command line and a file deleted; the recorded output path is the
\* second path of the command line, the file read and a file deleted; the
\* two paths differ although both clock readings gave the same time
C28_OnePairOfPaths == []PathsKept /\ [][PathsUsed]_vars

C28_Witness ==
    /\ PathsChosen /\ pc = "returned" /\ Len(runs) = 1
    /\ SinkIn[2] = SinkOut[2] /\ SinkIn # SinkOut
    /\ IsQuoted(runs[1].cmd, PathsEnd(runs[1].cmd) - 1, SinkIn)
    /\ fs = EmptyDict


----------------------------------------------------------------------------
(* datapipe/io/geometry_converter.py: the flat images of the ASTRI and GCT *)
(* cameras and their 2-D grids.  A flat image is a record [ndim, n, px]    *)
(* whose px maps the indices 0 .. n - 1 to pixel values.                   *)

Flat(nn, f) == [ndim |-> 1, n |-> nn, px |-> f]

\* the side of a module of 8 x 8 pixels
Side == 8

\* 37 modules of 64 pixels
AstriSize == 37 * 64

GctSize == 2048

\* np.arange(64).reshape([8,8])[::-1,:] at row i, column j (for comparison:
\* without the reversal of the rows)
ReversedNot(i, j) == i * Side + j

\* np.arange(64).reshape([8,8])[::-1,:] at row i, column j
Reversed(i, j) == (Side - 1 - i) * Side + j

\* lines 140-182: the module mapped to each block <<row, column>> of the
\* 7 x 7 blocks of the uncropped grid
AstriModules ==
    <<0, 2>> :> 34 @@ <<0, 3>> :> 35 @@ <<0, 4>> :> 36 @@ <<1, 1>> :> 29 @@
    <<1, 2>> :> 30 @@ <<1, 3>> :> 31 @@ <<1, 4>> :> 32 @@ <<1, 5>> :> 33 @@
    <<2, 0>> :> 22 @@ <<2, 1>> :> 23 @@ <<2, 2>> :> 24 @@ <<2, 3>> :> 25 @@
    <<2, 4>> :> 26 @@ <<2, 5>> :> 27 @@ <<2, 6>> :> 28 @@ <<3, 0>> :> 15 @@
    <<3, 1>> :> 16 @@ <<3, 2>> :> 17 @@ <<3, 3>> :> 18 @@ <<3, 4>> :> 19 @@
    <<3, 5>> :> 20 @@ <<3, 6>> :> 21 @@ <<4, 0>> :> 8 @@ <<4, 1>> :> 9 @@
    <<4, 2>> :> 10 @@ <<4, 3>> :> 11 @@ <<4, 4>> :> 12 @@ <<4, 5>> :> 13 @@
    <<4, 6>> :> 14 @@ <<5, 1>> :> 3 @@ <<5, 2>> :> 4 @@ <<5, 3>> :> 5 @@
    <<5, 4>> :> 6 @@ <<5, 5>> :> 7 @@ <<6, 2>> :> 0 @@ <<6, 3>> :> 1 @@
    <<6, 4>> :> 2

\* lines 212-240: the module mapped to each block of the 5 x 5 blocks of the
\* cropped grid
AstriCropModules ==
    <<0, 0>> :> 29 @@ <<0, 1>> :> 30 @@ <<0, 2>> :> 31 @@ <<0, 3>> :> 32 @@
    <<0, 4>> :> 33 @@ <<1, 0>> :> 23 @@ <<1, 1>> :> 24 @@ <<1, 2>> :> 25 @@
    <<1, 3>> :> 26 @@ <<1, 4>> :> 27 @@ <<2, 0>> :> 16 @@ <<2, 1>> :> 17 @@
    <<2, 2>> :> 18 @@ <<2, 3>> :> 19 @@ <<2, 4>> :> 20 @@ <<3, 0>> :> 9 @@
    <<3, 1>> :> 10 @@ <<3, 2>> :> 11 @@ <<3, 3>> :> 12 @@ <<3, 4>> :> 13 @@
    <<4, 0>> :> 3 @@ <<4, 1>> :> 4 @@ <<4, 2>> :> 5 @@ <<4, 3>> :> 6 @@
    <<4, 4>> :> 7

\* lines 334-376: the blocks in the order array_2d_to_astri concatenates them
AstriOrder ==
    <<
       <<6, 2>>, <<6, 3>>, <<6, 4>>, <<5, 1>>, <<5, 2>>, <<5, 3>>,
       <<5, 4>>, <<5, 5>>, <<4, 0>>, <<4, 1>>, <<4, 2>>, <<4, 3>>,
       <<4, 4>>, <<4, 5>>, <<4, 6>>, <<3, 0>>, <<3, 1>>, <<3, 2>>,
       <<3, 3>>, <<3, 4>>, <<3, 5>>, <<3, 6>>, <<2, 0>>, <<2, 1>>,
       <<2, 2>>, <<2, 3>>, <<2, 4>>, <<2, 5>>, <<2, 6>>, <<1, 1>>,
       <<1, 2>>, <<1, 3>>, <<1, 4>>, <<1, 5>>, <<0, 2>>, <<0, 3>>,
       <<0, 4>>
    >>

\* lines 132-182: img_map of astri_to_2d_array_no_crop at the cell p; the
\* cells of no module keep -1
astri_img_map(p) ==
    LET b == <<p[1] \div Side, p[2] \div Side>>
    IN  IF b \in DOMAIN AstriModules
        THEN Reversed(p[1] % Side, p[2] % Side) + AstriModules[b] * 64
        ELSE -1

\* lines 208-240: img_map of astri_to_2d_array_crop at the cell p
astri_crop_img_map(p) ==
    LET b == <<p[1] \div Side, p[2] \div Side>>
    IN  IF b \in DOMAIN AstriCropModules
        THEN Reversed(p[1] % Side, p[2] % Side) + AstriCropModules[b] * 64
        ELSE 0

\* input_img_ext[i]: the flat image with one more element, NaN, which the
\* index -1 reads
Ext(flat, i) == IF i = -1 THEN NaN ELSE flat.px[i]

astri_to_2d_array_no_crop(flat) ==
    Grid(Side * 7, Side * 7,
         [p \in Cells(Side * 7, Side * 7) |-> Ext(flat, astri_img_map(p))])

astri_to_2d_array_crop(flat) ==
    Grid(Side * 5, Side * 5,
         [p \in Cells(Side * 5, Side * 5) |-> flat.px[astri_crop_img_map(p)]])

astri_to_2d_array(flat, crop) ==
    IF crop THEN astri_to_2d_array_crop(flat)
    ELSE astri_to_2d_array_no_crop(flat)

\* np.concatenate of block[::-1,:].ravel() over the blocks of AstriOrder, for
\* a grid of 56 x 56 cells
array_2d_to_astri(g) ==
    Flat(Len(AstriOrder) * 64,
         [k \in 0 .. Len(AstriOrder) * 64 - 1 |->
             LET b == AstriOrder[(k \div 64) + 1]
                 t == k % 64
             IN  g.px[<<b[1] * Side + (Side - 1 - (t \div Side)),
                        b[2] * Side + (t % Side)>>]])

\* lines 409-417: img_map of gct_to_2d_array at the cell p of the 48 x 48
\* grid; the three assignments in the order of the code, -8 being 48 - 8
gct_img_map(p) ==
    LET n == Side * 6
        r == p[1]
        c == p[2]
    IN  IF r >= n - Side /\ c >= Side /\ c < n - Side
        THEN (r - (n - Side)) * (Side * 4) + (c - Side) + 1792
        ELSE IF r >= 8 /\ r < 40
        THEN (r - 8) * 48 + c + 256
        ELSE IF r < Side /\ c >= Side /\ c < n - Side
        THEN r * (Side * 4) + (c - Side)
        ELSE -1

gct_to_2d_array(flat) ==
    Grid(Side * 6, Side * 6,
         [p \in Cells(Side * 6, Side * 6) |-> Ext(flat, gct_img_map(p))])

\* lines 452-462: zeros, then ones on the three areas
gct_pixel_mask ==
    LET n == Side * 6
    IN  [p \in Cells(n, n) |->
            IF p[1] >= n - Side /\ p[2] >= Side /\ p[2] < n - Side THEN 1
            ELSE IF p[1] >= 8 /\ p[1] < 40 THEN 1
            ELSE IF p[1] < Side /\ p[2] >= Side /\ p[2] < n - Side THEN 1
            ELSE 0]

\* the values of the grid g row after row
Ravel(g) == [k \in 1 .. g.h * g.w |-> g.px[<<(k - 1) \div g.w, (k - 1) % g.w>>]]

\* a sequence as a flat image
FromSeq(s) == Flat(Len(s), [i \in 0 .. Len(s) - 1 |-> s[i + 1]])

\* the grid flattened with every value kept (for comparison)
array_2d_to_gctAll(g) == FromSeq(Ravel(g))

\* img_2d[np.isfinite(img_2d)]: the finite values row after row
array_2d_to_gct(g) == FromSeq(SelectSeq(Ravel(g), IsFinite))

\* Flat images given to the conversions: pixel i holds i + shift, so that no
\* two pixels are equal; one pixel may be replaced by a value that is not
\* finite; and images of another length.
MaxShift == 1

Ramp(nn, shift) == Flat(nn, [i \in 0 .. nn - 1 |-> Whole(i + shift)])

MarkPositions(nn) == {0, 63, 64, nn - 1}

MarkValues == {NaN, PosInf}

FlatImages(nn) ==
    {Ramp(nn, s) : s \in 0 .. MaxShift}
    \cup {[Ramp(nn, s) EXCEPT !.px[i] = v] :
             s \in 0 .. MaxShift, i \in MarkPositions(nn), v \in MarkValues}

WrongLengths(nn) == {0, nn - 1, nn + 1}

GeometryInit ==
    /\ algo \in {"astri", "gct"}
    /\ pc = "call"
    /\ LET nn == IF algo = "astri" THEN AstriSize ELSE GctSize
       IN  \E flat \in FlatImages(nn) \cup {Ramp(k, 0) : k \in WrongLengths(nn)} :
              /\ heap = <<flat>>
              /\ orig = flat
    /\ img = 1
    /\ ret = <<>>
    /\ err = ""
    /\ high_threshold = 0
    /\ low_threshold = 0
    /\ masks = <<>>
    /\ dilated = <<>>
    /\ params = DefaultParams
    /\ sink = NoDict
    /\ fs = EmptyDict
    /\ input_file_path = None
    /\ mr_output_file_path = None
    /\ nan_mask = EmptyDict
    /\ input_img = 0
    /\ cleaned_img = 0
    /\ runs = <<>>
    /\ calls = <<>>
    /\ clock = 0
    /\ drawn = <<>>

\* astri_to_2d_array(input_img, crop)
AstriTo2dArray ==
    /\ algo = "astri"
    /\ pc = "call"
    /\ \E crop \in BOOLEAN :
          IF heap[img].n # AstriSize
          THEN /\ err' = "ValueError"
               /\ pc' = "raised"
               /\ UNCHANGED <<heap, ret>>
          ELSE LET a == New(heap, astri_to_2d_array(heap[img], crop))
               IN  /\ heap' = a.heap
                   /\ ret' = Append(ret, a.ref)
                   /\ pc' = IF crop THEN "cropped" ELSE "converted"
                   /\ err' = ""
    /\ UNCHANGED <<algo, img, orig, tcvars, wtvars, ccvars, drawn>>

\* array_2d_to_astri of the uncropped grid
Array2dToAstri ==
    /\ algo = "astri"
    /\ pc = "converted"
    /\ LET a == New(heap, array_2d_to_astri(heap[ret[Len(ret)]]))
       IN  /\ heap' = a.heap
           /\ ret' = Append(ret, a.ref)
    /\ pc' = "returned"
    /\ UNCHANGED <<algo, img, orig, err, tcvars, wtvars, ccvars, drawn>>

\* gct_to_2d_array(input_img)
GctTo2dArray ==
    /\ algo = "gct"
    /\ pc = "call"
    /\ IF heap[img].n # GctSize
       THEN /\ err' = "ValueError"
            /\ pc' = "raised"
            /\ UNCHANGED <<heap, ret>>
       ELSE LET a == New(heap, gct_to_2d_array(heap[img]))
            IN  /\ heap' = a.heap
                /\ ret' = Append(ret, a.ref)
                /\ pc' = "converted"
                /\ err' = ""
    /\ UNCHANGED <<algo, img, orig, tcvars, wtvars, ccvars, drawn>>

\* array_2d_to_gct of the grid
Array2dToGct ==
    /\ algo = "gct"
    /\ pc = "converted"
    /\ LET a == New(heap, array_2d_to_gct(heap[ret[Len(ret)]]))
       IN  /\ heap' = a.heap
           /\ ret' = Append(ret, a.ref)
    /\ pc' = "returned"
    /\ UNCHANGED <<algo, img, orig, err, tcvars, wtvars, ccvars, drawn>>

GeometryNext ==
    \/ AstriTo2dArray
    \/ Array2dToAstri
    \/ GctTo2dArray
    \/ Array2dToGct

GeometrySpec == GeometryInit /\ [][GeometryNext]_vars


\* the window of h x w cells of the grid g whose first cell is <<r0, c0>>
Window(g, r0, c0, hh, ww) ==
    Grid(hh, ww, [p \in Cells(hh, ww) |-> g.px[<<p[1] + r0, p[2] + c0>>]])

\* the flat image given to the conversion, and what the calls returned
FlatIn == heap[img]

Converted == heap[ret[1]]

FlatOut == heap[ret[2]]

\* the flat image f holds no value twice and only finite values
AllDifferent(f) ==
    /\ \A i \in DOMAIN f.px : IsFinite(f.px[i])
    /\ Cardinality({f.px[i] : i \in DOMAIN f.px}) = f.n

\* the cells of the grid g that are not NaN
ValidCells(g) == {p \in DOMAIN g.px : ~IsNaN(g.px[p])}

\* C29: array_2d_to_astri(astri_to_2d_array(img, crop=False)) is img, pixel
\* for pixel, for every flat image of 37*64 pixels; the grid has 56 x 56
\* cells, every flat pixel sits in exactly one of them and the other cells
\* are NaN; and the cropped conversion is the window of 40 x 40 cells of the
\* uncropped one that starts at row 8, column 8
C29_AstriRoundTrip ==
    (algo = "astri" /\ pc \in {"converted", "cropped", "returned"}) =>
        /\ FlatIn.n = 37 * 64
        /\ pc = "returned" => FlatOut = FlatIn
        /\ pc \in {"converted", "returned"} =>
              /\ Shape(Converted) = <<56, 56>>
              /\ AllDifferent(FlatIn) =>
                    /\ Cardinality(ValidCells(Converted)) = FlatIn.n
                    /\ {Converted.px[p] : p \in ValidCells(Converted)}
                          = {FlatIn.px[i] : i \in DOMAIN FlatIn.px}
        /\ pc = "cropped" =>
              Converted = Window(astri_to_2d_array(FlatIn, FALSE), 8, 8, 40, 40)

C29_Witness ==
    /\ algo = "astri" /\ pc = "returned"
    /\ AllDifferent(FlatIn)
    /\ FlatOut = FlatIn
    /\ Converted.px[<<0, 16>>] = FlatIn.px[34 * 64 + 56]
    /\ IsNaN(Converted.px[<<0, 0>>])


\* every value of the flat image f is finite
FlatFinite(f) == \A i \in DOMAIN f.px : IsFinite(f.px[i])

\* the four corner blocks of 8 x 8 cells of the 48 x 48 grid
Corners ==
    {p \in Cells(48, 48) : /\ p[1] \in (0 .. 7) \cup (40 .. 47)
                           /\ p[2] \in (0 .. 7) \cup (40 .. 47)}

\* C30: gct_to_2d_array rejects with ValueError exactly the flat images whose
\* length is not 2048; for a flat image of 2048 finite values the grid has
\* 48 x 48 cells and is NaN exactly on the four corner blocks of 8 x 8
\* cells, which are the cells where gct_pixel_mask() is 0, and
\* array_2d_to_gct of the grid is the flat image again, 2048 values long
C30_GctRoundTrip ==
    (algo = "gct" /\ pc # "call") =>
        /\ (pc = "raised" /\ err = "ValueError") <=> FlatIn.n # 2048
        /\ (pc \in {"converted", "returned"} /\ FlatFinite(FlatIn)) =>
              /\ Shape(Converted) = <<48, 48>>
              /\ \A p \in Cells(48, 48) :
                    /\ IsNaN(Converted.px[p]) <=> p \in Corners
                    /\ p \in Corners <=> gct_pixel_mask[p] = 0
        /\ (pc = "returned" /\ FlatFinite(FlatIn)) =>
              /\ FlatOut.n = 2048
              /\ FlatOut = FlatIn

C30_Witness ==
    /\ algo = "gct" /\ pc = "returned"
    /\ FlatFinite(FlatIn) /\ FlatIn.px[0] # FlatIn.px[2047]
    /\ FlatOut = FlatIn
    /\ IsNaN(Converted.px[<<47, 47>>])
    /\ Converted.px[<<8, 0>>] = FlatIn.px[256]

============================================================================
